---- MODULE Spec2Model ----
(***************************************************************************)
(* Ghostnote (app.py): the /process request handler, the preset selection *)
(* policy, the on-disk stem cache and the process-wide separator cache.   *)
(* Text values (instrument names, action tokens, extensions, labels) are  *)
(* sequences of one-character strings, so that strip(), lower(), sorted() *)
(* and '-'.join() are computed as Python computes them.                    *)
(***************************************************************************)
EXTENDS Integers, Sequences, FiniteSets, TLC

\* ------------------------------------------------------------------ bounds
MaxRequests == 2       \* requests received in one behaviour of Spec
MaxRemovals == 4       \* length of the remove_multi lists of SpecOne

\* ------------------------------------------------------------- characters
\* The characters used, in code-point order (str comparison in sorted()).
Chars ==
  << "\t", " ", "-", ".", "3", "4",
     "A", "B", "C", "D", "E", "F", "G", "H", "I", "J", "K", "L", "M",
     "N", "O", "P", "Q", "R", "S", "T", "U", "V", "W", "X", "Y", "Z",
     "_",
     "a", "b", "c", "d", "e", "f", "g", "h", "i", "j", "k", "l", "m",
     "n", "o", "p", "q", "r", "s", "t", "u", "v", "w", "x", "y", "z" >>

Ord(c) == CHOOSE i \in 1..Len(Chars) : Chars[i] = c

IsUpper(c) == Ord(c) >= Ord("A") /\ Ord(c) <= Ord("Z")

IsSpace(c) == c \in {"\t", " "}

\* str.lower(), one character
LowerChar(c) == IF IsUpper(c) THEN Chars[Ord(c) + (Ord("a") - Ord("A"))] ELSE c

\* str.lower()
Lower(s) == [i \in 1..Len(s) |-> LowerChar(s[i])]

\* str.strip(): drop leading and trailing whitespace
RECURSIVE LStrip(_)
LStrip(s) == IF s # <<>> /\ IsSpace(Head(s)) THEN LStrip(Tail(s)) ELSE s

RECURSIVE RStrip(_)
RStrip(s) ==
  IF s # <<>> /\ IsSpace(s[Len(s)]) THEN RStrip(SubSeq(s, 1, Len(s) - 1)) ELSE s

Strip(s) == RStrip(LStrip(s))

\* s < t for str (code-point lexicographic order)
RECURSIVE StrLess(_, _)
StrLess(s, t) ==
  IF t = <<>> THEN FALSE
  ELSE IF s = <<>> THEN TRUE
  ELSE IF Head(s) = Head(t) THEN StrLess(Tail(s), Tail(t))
  ELSE Ord(Head(s)) < Ord(Head(t))

\* sorted(S) for a set of str
RECURSIVE Sorted(_)
Sorted(S) ==
  IF S = {} THEN <<>>
  ELSE LET m == CHOOSE x \in S : \A y \in S \ {x} : StrLess(x, y)
       IN  <<m>> \o Sorted(S \ {m})

\* sep.join(seq)
RECURSIVE Join(_, _)
Join(sep, ss) ==
  IF ss = <<>> THEN <<>>
  ELSE IF Len(ss) = 1 THEN ss[1]
  ELSE ss[1] \o sep \o Join(sep, Tail(ss))

Range(s) == {s[i] : i \in 1..Len(s)}

\* [f(x) for x in s if keep(x)] helper: the subsequence of s in a set
RECURSIVE SelectIn(_, _)
SelectIn(s, S) ==
  IF s = <<>> THEN <<>>
  ELSE (IF Head(s) \in S THEN <<Head(s)>> ELSE <<>>) \o SelectIn(Tail(s), S)

\* ------------------------------------------------------------------ words
vocals        == <<"v","o","c","a","l","s">>
drums         == <<"d","r","u","m","s">>
bass          == <<"b","a","s","s">>
piano         == <<"p","i","a","n","o">>
other         == <<"o","t","h","e","r">>
accompaniment == <<"a","c","c","o","m","p","a","n","i","m","e","n","t">>
voice         == <<"v","o","i","c","e">>
vocal         == <<"v","o","c","a","l">>
remove        == <<"r","e","m","o","v","e">>
solo          == <<"s","o","l","o">>

\* A form field that was not sent (request.form.get returns None / default)
None == <<"None">>

\* ---------------------------------------------------------------- presets
Presets == {"2stems", "4stems", "5stems"}

\* ALLOWED
ALLOWED ==
  { <<".","m","p","3">>, <<".","w","a","v">>, <<".","f","l","a","c">>,
    <<".","m","4","a">>, <<".","o","g","g">> }

\* Variant: .lower() left out
normalize_instrument_name_cased(name) ==
  LET n == Strip(IF name = None THEN <<>> ELSE name)
  IN  IF n \in {voice, vocal} THEN vocals ELSE n

\* normalize_instrument_name
normalize_instrument_name(name) ==
  LET n == Lower(Strip(IF name = None THEN <<>> ELSE name))
  IN  IF n \in {voice, vocal} THEN vocals ELSE n

\* Variant: the fast path also taken for the other 2-stems name
pick_preset_single_accomp(instrument, karaoke_fast) ==
  LET t == normalize_instrument_name(instrument)
  IN  IF t = piano THEN "5stems"
      ELSE IF karaoke_fast /\ t \in {vocals, accompaniment} THEN "2stems"
      ELSE "4stems"

\* Variant: the flag alone selects 2stems
pick_preset_single_flag(instrument, karaoke_fast) ==
  LET t == normalize_instrument_name(instrument)
  IN  IF t = piano THEN "5stems"
      ELSE IF karaoke_fast THEN "2stems"
      ELSE "4stems"

\* pick_preset_single
pick_preset_single(instrument, karaoke_fast) ==
  LET t == normalize_instrument_name(instrument)
  IN  IF t = piano THEN "5stems"
      ELSE IF karaoke_fast /\ t = vocals THEN "2stems"
      ELSE "4stems"

\* Variant: the 2-stems alternative that the comment on line 86 mentions
pick_preset_multi_fast(removals) ==
  LET rset == {normalize_instrument_name(removals[i]) : i \in 1..Len(removals)}
  IN  IF rset = {vocals} THEN "2stems"
      ELSE IF piano \in rset THEN "5stems"
      ELSE "4stems"

\* pick_preset_multi
pick_preset_multi(removals) ==
  LET rset == {normalize_instrument_name(removals[i]) : i \in 1..Len(removals)}
  IN  IF rset = {vocals} THEN "4stems"
      ELSE IF piano \in rset THEN "5stems"
      ELSE "4stems"

\* Variant: the catalog has lost its 5stems entry
expected_stems_for_no5(preset) ==
  IF preset = "2stems" THEN <<vocals, accompaniment>>
  ELSE IF preset = "4stems" THEN <<vocals, drums, bass, other>>
  ELSE <<>>

\* expected_stems_for: the stem names in dict (insertion) order; the file of
\* stem s is s + '.wav'. <<>> stands for the ValueError of an unknown preset.
expected_stems_for(preset) ==
  IF preset = "2stems" THEN <<vocals, accompaniment>>
  ELSE IF preset = "4stems" THEN <<vocals, drums, bass, other>>
  ELSE IF preset = "5stems" THEN <<vocals, drums, bass, piano, other>>
  ELSE <<>>

\* ------------------------------------------------------------------ state
Workers == {1, 2}      \* request-handling threads of the threaded server

\* request.form.get(key) in ('1', 'true', 'on')
IsTruthy(v) == v \in {"1", "true", "on"}

VARIABLES
  pc,          \* per worker: position in process()
  req,         \* per worker: the raw request being handled
  loc,         \* per worker: the local variables of process()
  outcome,     \* per worker: the response returned by process()
  uploads,     \* files present in UPLOAD_DIR
  stems,       \* per output directory and stem: content of <stem>.wav
  mixes,       \* mix files present under OUTPUT_ROOT
  separators,  \* _separators: preset -> Separator instance (0: no entry)
  constructed, \* per preset: number of Separator(...) constructions so far
  calls,       \* per worker: history of the current request
  nreq         \* requests received so far

vars == <<pc, req, loc, outcome, uploads, stems, mixes, separators,
          constructed, calls, nreq>>

\* Output directories (out_dir = OUTPUT_ROOT / base) and stem files
Bases == {"song"}

StemNames == {vocals, accompaniment, drums, bass, piano, other}

\* Content of a stem file: missing, zero bytes, or audio written by the
\* Separator of the named preset
Absent == "absent"
Empty == "empty"

NoFile == [present |-> FALSE, base |-> "", ext |-> <<>>]

NoReq ==
  [file |-> NoFile, multi |-> "absent", remove_multi |-> <<>>,
   instrument |-> None, action |-> None, karaoke |-> "absent"]

NoLoc ==
  [base |-> "", ext |-> <<>>, is_multi |-> FALSE, removals_multi |-> <<>>,
   instrument |-> <<>>, action |-> <<>>, karaoke_fast |-> FALSE,
   preset |-> "", need_separate |-> FALSE, separator |-> 0,
   keep_paths |-> <<>>, label |-> <<>>]

NoOutcome == [status |-> 0, msg |-> "", preset |-> "", names |-> <<>>]

\* History of the current request: collaborator calls made, whether the
\* cache check found every expected stem present and non-empty, and how the
\* engine call ended
NoCalls ==
  [save |-> 0, engine |-> 0, mix |-> 0, unlink |-> 0, hit |-> FALSE,
   engine_result |-> "none"]

Init ==
  /\ pc = [w \in Workers |-> "idle"]
  /\ req = [w \in Workers |-> NoReq]
  /\ loc = [w \in Workers |-> NoLoc]
  /\ outcome = [w \in Workers |-> NoOutcome]
  /\ uploads = {}
  /\ stems = [b \in Bases |-> [s \in StemNames |-> Absent]]
  /\ mixes = {}
  /\ separators = [p \in Presets |-> 0]
  /\ constructed = [p \in Presets |-> 0]
  /\ calls = [w \in Workers |-> NoCalls]
  /\ nreq = 0

\* return <msg>, <status>
Return(w, status, msg, preset, names) ==
  /\ pc' = [pc EXCEPT ![w] = "done"]
  /\ outcome' = [outcome EXCEPT ![w] =
       [status |-> status, msg |-> msg, preset |-> preset, names |-> names]]

\* ------------------------------------------------- process(): validation
\* line 124: (request.form.get('action', 'remove') or 'remove').strip().lower()
ActionOf(r) ==
  Lower(Strip(IF r.action \in {None, <<>>} THEN remove ELSE r.action))

\* The local variables process() has computed when validation is over
ParsedFields(r) ==
  LET is_multi == IsTruthy(r.multi)
      removals_multi ==
        [i \in 1..Len(r.remove_multi) |->
           normalize_instrument_name(r.remove_multi[i])]
      instrument ==
        normalize_instrument_name(
          IF r.instrument = None THEN drums ELSE r.instrument)
      action == ActionOf(r)
      karaoke_fast == IsTruthy(r.karaoke)
  IN  [NoLoc EXCEPT
         !.base = r.file.base,
         !.ext = r.file.ext,
         !.is_multi = is_multi,
         !.removals_multi = removals_multi,
         !.instrument = instrument,
         !.action = IF is_multi THEN remove ELSE action,
         !.karaoke_fast = IF is_multi THEN FALSE ELSE karaoke_fast,
         !.preset = IF is_multi THEN pick_preset_multi(removals_multi)
                    ELSE pick_preset_single(instrument, karaoke_fast)]

\* Variant: the extension check of lines 113-115 left out
ValidationFailureNoExt(r) ==
  LET l == ParsedFields(r)
      action == ActionOf(r)
  IN  IF ~r.file.present \/ (r.file.base = "" /\ r.file.ext = <<>>)
        THEN "No file uploaded"
      ELSE IF action \notin {remove, solo}
        THEN "Invalid action"
      ELSE IF l.is_multi /\ l.removals_multi = <<>>
        THEN "Choose at least one instrument to remove"
      ELSE IF ~l.is_multi /\ l.preset = "2stems"
              /\ l.instrument \notin {vocals, accompaniment}
        THEN "Fast Karaoke Mode (2-stems) only supports"
      ELSE ""

\* The 400 response of the validation part of process(), "" if it passes
ValidationFailure(r) ==
  LET l == ParsedFields(r)
      action == ActionOf(r)
  IN  IF ~r.file.present \/ (r.file.base = "" /\ r.file.ext = <<>>)
        THEN "No file uploaded"
      ELSE IF Lower(r.file.ext) \notin ALLOWED
        THEN "Unsupported file type"
      ELSE IF action \notin {remove, solo}
        THEN "Invalid action"
      ELSE IF l.is_multi /\ l.removals_multi = <<>>
        THEN "Choose at least one instrument to remove"
      ELSE IF ~l.is_multi /\ l.preset = "2stems"
              /\ l.instrument \notin {vocals, accompaniment}
        THEN "Fast Karaoke Mode (2-stems) only supports"
      ELSE ""

\* A request arrives at a free worker; lines 107-143 (no shared state touched)
Validate(w, R, max) ==
  /\ pc[w] \in {"idle", "done"}
  /\ nreq < max
  /\ \E r \in R :
       /\ req' = [req EXCEPT ![w] = r]
       /\ calls' = [calls EXCEPT ![w] = NoCalls]
       /\ nreq' = nreq + 1
       /\ IF ValidationFailure(r) # ""
            THEN /\ Return(w, 400, ValidationFailure(r), "", <<>>)
                 /\ loc' = [loc EXCEPT ![w] = NoLoc]
            ELSE /\ pc' = [pc EXCEPT ![w] = "save"]
                 /\ outcome' = [outcome EXCEPT ![w] = NoOutcome]
                 /\ loc' = [loc EXCEPT ![w] = ParsedFields(r)]
  /\ UNCHANGED <<uploads, stems, mixes, separators, constructed>>

\* The uploaded file's name in UPLOAD_DIR
InPath(l) == [base |-> l.base, ext |-> l.ext]

\* lines 145-151: f.save(in_path); out_dir.mkdir(exist_ok=True)
Save(w) ==
  /\ pc[w] = "save"
  /\ uploads' = uploads \cup {InPath(loc[w])}
  /\ calls' = [calls EXCEPT ![w].save = @ + 1]
  /\ pc' = [pc EXCEPT ![w] = "check"]
  /\ UNCHANGED <<req, loc, outcome, stems, mixes, separators, constructed, nreq>>

\* not p.exists() or p.stat().st_size == 0
MissingOrEmpty(content) == content \in {Absent, Empty}

\* Variant: no cache, the engine always runs
NeedSeparateAlways(dir, preset) == TRUE

\* Variant: only the first expected stem is looked at
NeedSeparateFirstOnly(dir, preset) ==
  MissingOrEmpty(dir[expected_stems_for(preset)[1]])

\* any(... for p in stems_paths.values())
NeedSeparate(dir, preset) ==
  \E i \in 1..Len(expected_stems_for(preset)) :
     MissingOrEmpty(dir[expected_stems_for(preset)[i]])

\* Variant: the check waits while another request of the same asset and preset
\* is between its own check and the end of its engine call
CheckCacheLocked(w) ==
  /\ pc[w] = "check"
  /\ \A v \in Workers \ {w} :
        ~(/\ pc[v] \in {"get_separator", "construct", "get_return", "separate"}
          /\ loc[v].base = loc[w].base
          /\ loc[v].preset = loc[w].preset)
  /\ IF expected_stems_for(loc[w].preset) = <<>>
       THEN /\ Return(w, 500, "Unknown preset", loc[w].preset, <<>>)
            /\ UNCHANGED <<loc, calls>>
       ELSE /\ LET need == NeedSeparate(stems[loc[w].base], loc[w].preset)
               IN  /\ loc' = [loc EXCEPT ![w].need_separate = need]
                   /\ pc' = [pc EXCEPT ![w] =
                               IF need THEN "get_separator" ELSE "unlink"]
            /\ calls' = [calls EXCEPT ![w].hit =
                 \A s \in Range(expected_stems_for(loc[w].preset)) :
                    stems[loc[w].base][s] \notin {Absent, Empty}]
            /\ UNCHANGED outcome
  /\ UNCHANGED <<req, uploads, stems, mixes, separators, constructed, nreq>>

\* lines 153-158: expected stems of the preset (its ValueError, not caught,
\* ends the request with a 500), cache check
CheckCache(w) ==
  /\ pc[w] = "check"
  /\ IF expected_stems_for(loc[w].preset) = <<>>
       THEN /\ Return(w, 500, "Unknown preset", loc[w].preset, <<>>)
            /\ UNCHANGED <<loc, calls>>
       ELSE /\ LET need == NeedSeparate(stems[loc[w].base], loc[w].preset)
               IN  /\ loc' = [loc EXCEPT ![w].need_separate = need]
                   /\ pc' = [pc EXCEPT ![w] =
                               IF need THEN "get_separator" ELSE "unlink"]
            /\ calls' = [calls EXCEPT ![w].hit =
                 \A s \in Range(expected_stems_for(loc[w].preset)) :
                    stems[loc[w].base][s] \notin {Absent, Empty}]
            /\ UNCHANGED outcome
  /\ UNCHANGED <<req, uploads, stems, mixes, separators, constructed, nreq>>

\* ------------------------------------------------------- get_separator
\* line 30: if preset not in _separators
GetSeparatorCheck(w) ==
  /\ pc[w] = "get_separator"
  /\ pc' = [pc EXCEPT ![w] =
       IF separators[loc[w].preset] = 0 THEN "construct" ELSE "get_return"]
  /\ UNCHANGED <<req, loc, outcome, uploads, stems, mixes, separators,
                 constructed, calls, nreq>>

\* line 31: _separators[preset] = Separator(f'spleeter:{preset}')
\* The instance is named by its construction number for the preset.
Construct(w) ==
  /\ pc[w] = "construct"
  /\ constructed' = [constructed EXCEPT ![loc[w].preset] = @ + 1]
  /\ separators' = [separators EXCEPT ![loc[w].preset] =
                      constructed[loc[w].preset] + 1]
  /\ pc' = [pc EXCEPT ![w] = "get_return"]
  /\ UNCHANGED <<req, loc, outcome, uploads, stems, mixes, calls, nreq>>

\* line 32: return _separators[preset]
GetSeparatorReturn(w) ==
  /\ pc[w] = "get_return"
  /\ loc' = [loc EXCEPT ![w].separator = separators[loc[w].preset]]
  /\ pc' = [pc EXCEPT ![w] = "separate"]
  /\ UNCHANGED <<req, outcome, uploads, stems, mixes, separators, constructed,
                 calls, nreq>>

\* --------------------------------------------------- separation engine
\* Result of a returning separate_to_file of the Separator of `preset` on an
\* output directory: every stem of the preset is written, except that stem
\* `bad` (if any) is left as it was (how = "skip") or written with zero bytes
\* (how = "empty").
EngineWrite(dir, preset, bad, how) ==
  [s \in StemNames |->
     IF s \notin Range(expected_stems_for(preset)) THEN dir[s]
     ELSE IF s # bad THEN preset
     ELSE IF how = "skip" THEN dir[s]
     ELSE Empty]

\* line 164 raising: except Exception -> 'Spleeter failed (preset): e', 500.
\* The engine cannot read an input that is not there; it may fail otherwise.
SeparateRaises(w) ==
  /\ pc[w] = "separate"
  /\ calls' = [calls EXCEPT ![w].engine = @ + 1,
                           ![w].engine_result = "raised"]
  /\ Return(w, 500, "Spleeter failed", loc[w].preset, <<>>)
  /\ UNCHANGED <<req, loc, uploads, stems, mixes, separators, constructed, nreq>>

\* line 164 returning: the stems are written under OUTPUT_ROOT / base
SeparateReturns(w) ==
  /\ pc[w] = "separate"
  /\ InPath(loc[w]) \in uploads
  /\ calls' = [calls EXCEPT ![w].engine = @ + 1,
                           ![w].engine_result = "returned"]
  /\ \E bad \in Range(expected_stems_for(loc[w].preset)) \cup {None},
        how \in {"skip", "empty"} :
       stems' = [stems EXCEPT ![loc[w].base] =
                   EngineWrite(@, loc[w].preset, bad, how)]
  /\ pc' = [pc EXCEPT ![w] = "unlink"]
  /\ UNCHANGED <<req, loc, outcome, uploads, mixes, separators, constructed, nreq>>

\* Variant: the upload is removed only when the engine ran
UnlinkAfterEngineOnly(w) ==
  /\ pc[w] = "unlink"
  /\ IF loc[w].need_separate
       THEN /\ \/ uploads' = uploads \ {InPath(loc[w])}
               \/ UNCHANGED uploads
            /\ calls' = [calls EXCEPT ![w].unlink = @ + 1]
       ELSE UNCHANGED <<uploads, calls>>
  /\ pc' = [pc EXCEPT ![w] = "validate_stems"]
  /\ UNCHANGED <<req, loc, outcome, stems, mixes, separators, constructed, nreq>>

\* lines 166-169: in_path.unlink(missing_ok=True); a failure is swallowed
Unlink(w) ==
  /\ pc[w] = "unlink"
  /\ \/ uploads' = uploads \ {InPath(loc[w])}
     \/ UNCHANGED uploads
  /\ calls' = [calls EXCEPT ![w].unlink = @ + 1]
  /\ pc' = [pc EXCEPT ![w] = "validate_stems"]
  /\ UNCHANGED <<req, loc, outcome, stems, mixes, separators, constructed, nreq>>

\* ------------------------------------------ stems check and composition
\* Variant: the st_size == 0 test left out
MissingStemsExistsOnly(dir, preset) ==
  SelectIn(expected_stems_for(preset), {s \in StemNames : dir[s] = Absent})

\* line 174: missing = [name for name, p in stems_paths.items() if ...]
MissingStems(dir, preset) ==
  SelectIn(expected_stems_for(preset),
           {s \in StemNames : MissingOrEmpty(dir[s])})

\* A composition: keep_paths holds the stem names of the kept paths, in
\* stems_paths order; msg is the 400 response when there is none
Composition(keep, label) ==
  [ok |-> TRUE, msg |-> "", keep_paths |-> keep, label |-> label]

NoComposition(msg) ==
  [ok |-> FALSE, msg |-> msg, keep_paths |-> <<>>, label |-> <<>>]

\* Variant: the label joins the removal list as sent, without sorted(set())
PlanMultiUnsorted(l) ==
  LET names == expected_stems_for(l.preset)
      targets == Range(l.removals_multi)
  IN  Composition(SelectIn(names, Range(names) \ targets),
                  <<"n","o","_">> \o Join(<<"-">>, l.removals_multi))

\* lines 180-185: multi-removal
PlanMulti(l) ==
  LET names == expected_stems_for(l.preset)
      targets == Range(l.removals_multi)
  IN  Composition(SelectIn(names, Range(names) \ targets),
                  <<"n","o","_">> \o Join(<<"-">>, Sorted(targets)))

\* Variant: the branches of line 194 exchanged
PlanSingleSwapped(l) ==
  LET names == expected_stems_for(l.preset)
  IN  IF l.preset = "2stems" /\ l.instrument \notin {vocals, accompaniment}
        THEN NoComposition("not available in 2-stems")
      ELSE IF l.instrument \notin Range(names)
        THEN NoComposition("Target stem not present in preset")
      ELSE IF l.action # remove
        THEN Composition(SelectIn(names, Range(names) \ {l.instrument}),
                         <<"n","o","_">> \o l.instrument)
      ELSE Composition(<<l.instrument>>,
                       <<"s","o","l","o","_">> \o l.instrument)

\* lines 186-199: single instrument
PlanSingle(l) ==
  LET names == expected_stems_for(l.preset)
  IN  IF l.preset = "2stems" /\ l.instrument \notin {vocals, accompaniment}
        THEN NoComposition("not available in 2-stems")
      ELSE IF l.instrument \notin Range(names)
        THEN NoComposition("Target stem not present in preset")
      ELSE IF l.action = remove
        THEN Composition(SelectIn(names, Range(names) \ {l.instrument}),
                         <<"n","o","_">> \o l.instrument)
      ELSE Composition(<<l.instrument>>,
                       <<"s","o","l","o","_">> \o l.instrument)

\* Variant: the single-mode branch is never taken
PlanAsMulti(l) == PlanMulti(l)

\* lines 180-199
Plan(l) == IF l.is_multi THEN PlanMulti(l) ELSE PlanSingle(l)

\* Variant: the len(keep_paths) == 0 test of lines 201-202 left out
ValidateStemsNoEmptyTest(w) ==
  /\ pc[w] = "validate_stems"
  /\ LET l == loc[w]
         missing == MissingStems(stems[l.base], l.preset)
         plan == Plan(l)
     IN  IF missing # <<>>
           THEN /\ Return(w, 500, "Unexpected output", l.preset, missing)
                /\ UNCHANGED loc
         ELSE IF ~plan.ok
           THEN /\ Return(w, 400, plan.msg, l.preset, <<l.instrument>>)
                /\ UNCHANGED loc
         ELSE /\ loc' = [loc EXCEPT ![w].keep_paths = plan.keep_paths,
                                    ![w].label = plan.label]
              /\ pc' = [pc EXCEPT ![w] = "mix"]
              /\ UNCHANGED outcome
  /\ UNCHANGED <<req, uploads, stems, mixes, separators, constructed, calls, nreq>>

\* lines 173-202
ValidateStems(w) ==
  /\ pc[w] = "validate_stems"
  /\ LET l == loc[w]
         missing == MissingStems(stems[l.base], l.preset)
         plan == Plan(l)
     IN  IF missing # <<>>
           THEN /\ Return(w, 500, "Unexpected output", l.preset, missing)
                /\ UNCHANGED loc
         ELSE IF ~plan.ok
           THEN /\ Return(w, 400, plan.msg, l.preset, <<l.instrument>>)
                /\ UNCHANGED loc
         ELSE IF Len(plan.keep_paths) = 0
           THEN /\ Return(w, 400, "Nothing to mix", l.preset, <<>>)
                /\ UNCHANGED loc
         ELSE /\ loc' = [loc EXCEPT ![w].keep_paths = plan.keep_paths,
                                    ![w].label = plan.label]
              /\ pc' = [pc EXCEPT ![w] = "mix"]
              /\ UNCHANGED outcome
  /\ UNCHANGED <<req, uploads, stems, mixes, separators, constructed, calls, nreq>>

\* ----------------------------------------------------------------- mixer
\* mix_path = out_dir / f'{base}_{label}.wav'
MixPath(l) == [base |-> l.base, label |-> l.label]

\* lines 204-228, ffmpeg_mix succeeding: the mix file is written
MixSucceeds(w) ==
  /\ pc[w] = "mix"
  /\ Len(loc[w].keep_paths) # 0
  /\ calls' = [calls EXCEPT ![w].mix = @ + 1]
  /\ mixes' = mixes \cup {MixPath(loc[w])}
  /\ Return(w, 200, "result.html", loc[w].preset, loc[w].keep_paths)
  /\ UNCHANGED <<req, loc, uploads, stems, separators, constructed, nreq>>

\* Variant: a failed mix is tried a second time
MixFailsRetry(w) ==
  /\ pc[w] = "mix"
  /\ calls' = [calls EXCEPT ![w].mix = @ + 1]
  /\ IF calls[w].mix = 0
       THEN UNCHANGED <<pc, outcome>>
       ELSE Return(w, 500, "FFmpeg mix failed", loc[w].preset, <<>>)
  /\ UNCHANGED <<req, loc, uploads, stems, mixes, separators, constructed, nreq>>

\* lines 204-211, ffmpeg_mix returning an error text: no inputs (ffmpeg is
\* not run) or CalledProcessError
MixFails(w) ==
  /\ pc[w] = "mix"
  /\ calls' = [calls EXCEPT ![w].mix =
                 IF Len(loc[w].keep_paths) = 0 THEN @ ELSE @ + 1]
  /\ Return(w, 500, "FFmpeg mix failed", loc[w].preset, <<>>)
  /\ UNCHANGED <<req, loc, uploads, stems, mixes, separators, constructed, nreq>>

\* One step of worker w past validation
Step(w) ==
  \/ Save(w)
  \/ CheckCache(w)
  \/ GetSeparatorCheck(w)
  \/ Construct(w)
  \/ GetSeparatorReturn(w)
  \/ SeparateRaises(w)
  \/ SeparateReturns(w)
  \/ Unlink(w)
  \/ ValidateStems(w)
  \/ MixSucceeds(w)
  \/ MixFails(w)

\* --------------------------------------------------------------- requests
mp3 == <<".","m","p","3">>

SongMp3 == [present |-> TRUE, base |-> "song", ext |-> mp3]

\* Raw spellings sent by clients
VoiceRaw == <<" ","V","o","i","c","e">>
VocalRaw == <<"V","O","C","A","L","\t">>
PianoRaw == <<"P","i","a","n","o"," ">>
SoloRaw  == <<" ","S","o","l","o">>
guitar   == <<"g","u","i","t","a","r">>
mute     == <<"m","u","t","e">>

SingleReq(f, i, a, k) ==
  [file |-> f, multi |-> "absent", remove_multi |-> <<>>,
   instrument |-> i, action |-> a, karaoke |-> k]

MultiReq(f, rl, a, k) ==
  [file |-> f, multi |-> "on", remove_multi |-> rl,
   instrument |-> None, action |-> a, karaoke |-> k]

\* The requests of the concurrent specification: one upload name, every
\* preset, both modes
Requests ==
  { SingleReq(SongMp3, drums, remove, "absent"),
    SingleReq(SongMp3, piano, remove, "absent"),
    SingleReq(SongMp3, VoiceRaw, SoloRaw, "on"),
    MultiReq(SongMp3, <<drums, bass>>, None, "absent") }

\* All sequences over S of length at most n
RECURSIVE SeqsUpTo(_, _)
SeqsUpTo(S, n) ==
  IF n = 0 THEN {<<>>}
  ELSE LET shorter == SeqsUpTo(S, n - 1)
       IN  shorter \cup {Append(q, x) : q \in shorter, x \in S}

Files ==
  { NoFile,
    [present |-> TRUE, base |-> "", ext |-> <<>>],
    SongMp3,
    [present |-> TRUE, base |-> "song", ext |-> <<".","M","P","3">>],
    [present |-> TRUE, base |-> "song", ext |-> <<".","m","4","a">>],
    [present |-> TRUE, base |-> "song", ext |-> <<".","x","y","z">>],
    [present |-> TRUE, base |-> "song", ext |-> <<>>] }

RawInstruments ==
  { None, <<>>, drums, bass, piano, other, vocals, accompaniment,
    VoiceRaw, VocalRaw, PianoRaw, guitar }

RawActions == {None, <<>>, remove, solo, SoloRaw, mute}

RawFlags == {"absent", "on", "1", "True"}

RemovalLists ==
  SeqsUpTo({VocalRaw, drums, bass, other}, MaxRemovals)
  \cup { <<piano>>, <<PianoRaw, drums>>, <<vocals, piano>>, <<vocals>>,
         <<drums, guitar>>, <<drums, guitar, bass, drums>>, <<accompaniment>>, <<guitar, <<>> >>,
         <<piano, other, drums, bass, VoiceRaw>> }

\* The requests of the one-request specification: single mode over all
\* fields, multi mode over all fields, multi mode over all removal lists
OneRequests ==
  {[file |-> f, multi |-> m, remove_multi |-> rl,
    instrument |-> i, action |-> a, karaoke |-> k] :
     f \in Files, m \in {"absent", "0"}, rl \in {<<>>, <<piano>>},
     i \in RawInstruments, a \in RawActions, k \in RawFlags}
  \cup
  {[file |-> f, multi |-> m, remove_multi |-> rl,
    instrument |-> i, action |-> a, karaoke |-> k] :
     f \in Files, m \in {"on", "true", "1"},
     rl \in {<<>>, <<VocalRaw>>, <<piano, drums>>},
     i \in {None, vocals}, a \in RawActions, k \in RawFlags}
  \cup
  {[file |-> f, multi |-> m, remove_multi |-> rl,
    instrument |-> i, action |-> a, karaoke |-> k] :
     f \in {SongMp3}, m \in {"on"}, rl \in RemovalLists,
     i \in {None}, a \in {None}, k \in {"absent", "on"}}

\* ---------------------------------------------------------- specifications
\* Concurrent requests on the threaded server
Next ==
  \E w \in Workers :
     \/ Validate(w, Requests, MaxRequests)
     \/ Step(w)

Spec == Init /\ [][Next]_vars

\* One request, handled alone, over all request fields
NextOne ==
  \/ (nreq = 0 /\ Validate(1, OneRequests, MaxRequests))
  \/ Step(1)

SpecOne == Init /\ [][NextOne]_vars

\* ------------------------------------------ normalize_instrument_name alone
\* Raw names: every word with every padding, and the absent value
Pads == { <<>>, <<" ">>, <<"\t", " ">> }

Words ==
  { <<>>, voice, vocal, vocals, drums, piano, guitar,
    <<"V","o","i","c","e">>, <<"V","O","C","A","L">>, <<"v","O","c","a","l">>,
    <<"V","o","c","a","l","s">>, <<"D","r","u","m","s">>,
    <<"v","o"," ","c","a","l">>, <<"v","o","c","a","l","e">> }

NormalizeInputs ==
  {None} \cup {l \o x \o r : l \in Pads, x \in Words, r \in Pads}

InitNormalize ==
  /\ pc = [w \in Workers |-> IF w = 1 THEN "normalize" ELSE "idle"]
  /\ req \in {[w \in Workers |->
                 IF w = 1 THEN [NoReq EXCEPT !.instrument = x] ELSE NoReq] :
              x \in NormalizeInputs}
  /\ loc = [w \in Workers |-> NoLoc]
  /\ outcome = [w \in Workers |-> NoOutcome]
  /\ uploads = {}
  /\ stems = [b \in Bases |-> [s \in StemNames |-> Absent]]
  /\ mixes = {}
  /\ separators = [p \in Presets |-> 0]
  /\ constructed = [p \in Presets |-> 0]
  /\ calls = [w \in Workers |-> NoCalls]
  /\ nreq = 0

\* normalize_instrument_name(raw), as on lines 121 and 123
NormalizeRaw(w) ==
  /\ pc[w] = "normalize"
  /\ loc' = [loc EXCEPT ![w].instrument =
               normalize_instrument_name(req[w].instrument)]
  /\ pc' = [pc EXCEPT ![w] = "normalized"]
  /\ UNCHANGED <<req, outcome, uploads, stems, mixes, separators, constructed,
                 calls, nreq>>

\* normalize_instrument_name of a normalized name, as on lines 69 and 84
NormalizeAgain(w) ==
  /\ pc[w] = "normalized"
  /\ loc' = [loc EXCEPT ![w].instrument =
               normalize_instrument_name(loc[w].instrument)]
  /\ pc' = [pc EXCEPT ![w] = "renormalized"]
  /\ UNCHANGED <<req, outcome, uploads, stems, mixes, separators, constructed,
                 calls, nreq>>

NextNormalize == NormalizeRaw(1) \/ NormalizeAgain(1)

SpecNormalize == InitNormalize /\ [][NextNormalize]_vars

\* ================================================================ claims
\* The stems of dir that a check of `preset` finds missing or empty
BadStems(dir, preset) ==
  {s \in Range(expected_stems_for(preset)) : dir[s] \in {Absent, Empty}}

\* C1: a request whose cache check found every expected stem file present
\* and non-empty never invokes the separation engine, and none of its steps
\* changes a stem file.
CacheHitSkipsEngine ==
  /\ [](\A w \in Workers : calls[w].hit => calls[w].engine = 0)
  /\ [][\A w \in Workers :
          (calls[w].hit /\ pc'[w] # pc[w]) => stems' = stems]_vars

\* C1 witness: a request served from the cache has completed with a mix
CacheHitCompleted ==
  \E w \in Workers :
     calls[w].hit /\ pc[w] = "done" /\ outcome[w].status = 200

\* C2: whenever a request's cache check is a hit, every expected stem file it
\* is about to reuse was written by the engine of the request's own preset.
CacheHitUsesOwnPreset ==
  [][\A w \in Workers :
       (pc[w] = "check" /\ pc'[w] = "unlink") =>
          \A s \in Range(expected_stems_for(loc[w].preset)) :
             stems[loc[w].base][s] = loc[w].preset]_vars

\* C3: the Separator of a preset is constructed at most once, and all
\* requests of that preset hold the same instance.
SeparatorConstructedOnce ==
  /\ \A p \in Presets : constructed[p] <= 1
  /\ \A v, w \in Workers :
       (/\ loc[v].preset = loc[w].preset
        /\ loc[v].separator # 0
        /\ loc[w].separator # 0) => loc[v].separator = loc[w].separator

\* The request fields that the validation rejects, as the claim lists them
RequestFieldsInvalid(r) ==
  \/ ~r.file.present
  \/ (r.file.base = "" /\ r.file.ext = <<>>)
  \/ Lower(r.file.ext) \notin ALLOWED
  \/ ActionOf(r) \notin {remove, solo}
  \/ (IsTruthy(r.multi) /\ r.remove_multi = <<>>)

\* C4: a request with a missing file, an unsupported extension, an invalid
\* action or (multi mode) an empty removal list ends with a 400 response,
\* and nothing was saved, separated or mixed for it.
InvalidRequestDoesNoWork ==
  \A w \in Workers :
     (pc[w] # "idle" /\ RequestFieldsInvalid(req[w])) =>
        /\ pc[w] = "done"
        /\ outcome[w].status = 400
        /\ calls[w].save = 0 /\ calls[w].engine = 0 /\ calls[w].mix = 0
        /\ uploads = {}
        /\ mixes = {}
        /\ \A b \in Bases, s \in StemNames : stems[b][s] = Absent

\* C4 witness: a request with an unsupported extension has been rejected
UnsupportedFileRejected ==
  \E w \in Workers :
     /\ pc[w] = "done"
     /\ req[w].file.present
     /\ Lower(req[w].file.ext) \notin ALLOWED
     /\ outcome[w].msg = "Unsupported file type"

\* C5: within one request the engine and the mixer are each invoked at most
\* once, the engine never after the mixer, and once the request has an
\* outcome no collaborator is invoked and the outcome stays.
NoRetryFirstFailureTerminal ==
  /\ [](\A w \in Workers :
          /\ calls[w].engine <= 1
          /\ calls[w].mix <= 1
          /\ (outcome[w].status # 0 => pc[w] = "done"))
  /\ [][\A w \in Workers :
          /\ (calls'[w].engine > calls[w].engine => calls[w].mix = 0)
          /\ ((outcome[w].status # 0 /\ nreq' = nreq) =>
                (outcome'[w] = outcome[w] /\ calls'[w] = calls[w]))]_vars

\* C5 witness: a request that ran the engine and then failed in the mixer
MixFailedAfterSeparation ==
  \E w \in Workers :
     /\ pc[w] = "done"
     /\ outcome[w].msg = "FFmpeg mix failed"
     /\ calls[w].engine = 1
     /\ calls[w].mix = 1

\* C6: an engine call that raises ends the request with 'Spleeter failed'
\* naming the preset; an engine call that returns, followed by a check that
\* finds expected stems missing or empty, ends the request with 'Unexpected
\* output' listing exactly those stems; in both cases the mixer is not run.
SeparationFailuresClassified ==
  /\ [](\A w \in Workers :
          /\ calls[w].engine_result = "raised" =>
               /\ pc[w] = "done"
               /\ outcome[w].status = 500
               /\ outcome[w].msg = "Spleeter failed"
               /\ outcome[w].preset = loc[w].preset
               /\ calls[w].mix = 0
          /\ outcome[w].msg = "Unexpected output" => calls[w].mix = 0)
  /\ [][\A w \in Workers :
          (/\ pc[w] = "validate_stems"
           /\ pc'[w] # "validate_stems"
           /\ calls[w].engine_result = "returned"
           /\ BadStems(stems[loc[w].base], loc[w].preset) # {}) =>
             /\ pc'[w] = "done"
             /\ outcome'[w].status = 500
             /\ outcome'[w].msg = "Unexpected output"
             /\ outcome'[w].preset = loc[w].preset
             /\ Range(outcome'[w].names) =
                  BadStems(stems[loc[w].base], loc[w].preset)
             /\ Len(outcome'[w].names) =
                  Cardinality(BadStems(stems[loc[w].base], loc[w].preset))]_vars

\* C6 witness: the engine returned and the request ended on incomplete output
IncompleteOutputReported ==
  \E w \in Workers :
     /\ pc[w] = "done"
     /\ calls[w].engine_result = "returned"
     /\ outcome[w].msg = "Unexpected output"
     /\ outcome[w].names # <<>>

\* The instrument a request names, as normalized (default 'drums')
TargetOf(r) ==
  normalize_instrument_name(IF r.instrument = None THEN drums ELSE r.instrument)

\* The removal names a request lists, as normalized
RemovalSetOf(r) ==
  {normalize_instrument_name(r.remove_multi[i]) : i \in 1..Len(r.remove_multi)}

\* C7: in single mode the preset is 5stems for piano, else 2stems for vocals
\* with the fast-path flag, else 4stems; in multi mode it is 5stems exactly
\* when piano is in the removal set, else 4stems, and never 2stems.
PresetSelectionPolicy ==
  \A w \in Workers :
     loc[w].preset # "" =>
        IF IsTruthy(req[w].multi)
          THEN /\ loc[w].preset # "2stems"
               /\ (loc[w].preset = "5stems") <=> (piano \in RemovalSetOf(req[w]))
               /\ (loc[w].preset = "4stems") <=> (piano \notin RemovalSetOf(req[w]))
          ELSE loc[w].preset =
                 (IF TargetOf(req[w]) = piano THEN "5stems"
                  ELSE IF IsTruthy(req[w].karaoke) /\ TargetOf(req[w]) = vocals
                    THEN "2stems"
                  ELSE "4stems")

\* C7 witness: a multi request removing only vocals has been given 4stems
MultiVocalsOnlyGets4Stems ==
  \E w \in Workers :
     /\ IsTruthy(req[w].multi)
     /\ RemovalSetOf(req[w]) = {vocals}
     /\ loc[w].preset = "4stems"

\* The preset the request of w would be given with the fast-path flag k
\* (compared in the state that follows the selection)
PresetWithFlag(w, k) == ParsedFields([req[w] EXCEPT !.karaoke = k]).preset

\* C8 (as claimed): 2stems is chosen only in single mode with action remove,
\* target vocals and the flag set; in every other combination the flag does
\* not change the preset.
FastPathOnlySingleRemoveVocals ==
  \A w \in Workers :
     loc[w].preset # "" =>
        /\ loc[w].preset = "2stems" =>
             /\ ~IsTruthy(req[w].multi)
             /\ ActionOf(req[w]) = remove
             /\ TargetOf(req[w]) = vocals
             /\ IsTruthy(req[w].karaoke)
        /\ ~(/\ ~IsTruthy(req[w].multi)
             /\ ActionOf(req[w]) = remove
             /\ TargetOf(req[w]) = vocals) =>
             (pc[w] = "save" =>
                \A k \in RawFlags : PresetWithFlag(w, k) = loc[w].preset)

\* C8 (amended): 2stems is chosen only in single mode with target vocals and
\* the flag set, whether the action is remove or solo; in every other
\* combination of mode and target the flag does not change the preset.
FastPathOnlySingleVocals ==
  \A w \in Workers :
     loc[w].preset # "" =>
        /\ loc[w].preset = "2stems" =>
             /\ ~IsTruthy(req[w].multi)
             /\ ActionOf(req[w]) \in {remove, solo}
             /\ TargetOf(req[w]) = vocals
             /\ IsTruthy(req[w].karaoke)
        /\ ~(~IsTruthy(req[w].multi) /\ TargetOf(req[w]) = vocals) =>
             (pc[w] = "save" =>
                \A k \in RawFlags : PresetWithFlag(w, k) = loc[w].preset)

\* C8 witness: a single solo request for vocals with the flag set got 2stems
SoloVocalsFastPath ==
  \E w \in Workers :
     /\ ~IsTruthy(req[w].multi)
     /\ ActionOf(req[w]) = solo
     /\ TargetOf(req[w]) = vocals
     /\ IsTruthy(req[w].karaoke)
     /\ loc[w].preset = "2stems"

\* Position of stem x in the catalog sequence names
CatalogPos(names, x) == CHOOSE k \in 1..Len(names) : names[k] = x

\* keep lists exactly the stems of S, each once, in the order of names
KeepsExactly(keep, S, names) ==
  /\ Range(keep) = S
  /\ Len(keep) = Cardinality(S)
  /\ \A i, j \in 1..Len(keep) :
        i < j => CatalogPos(names, keep[i]) < CatalogPos(names, keep[j])

\* The stems handed to the mixer by w, once w has a composition
MixerInputs(w) == loc[w].keep_paths

\* w has a composition: it is about to run the mixer or has run it
Composed(w) ==
  pc[w] = "mix" \/ (pc[w] = "done" /\ calls[w].mix = 1)

\* C9: in single mode with a target among the preset's stems, remove mixes
\* the other stems in catalog order under 'no_'+target and solo mixes the
\* target alone under 'solo_'+target; with a target not among the preset's
\* stems the request gets no composition, the mixer is not run, and a request
\* whose stems were complete ends with the 400 stem-unavailable response.
SingleModeComposition ==
  \A w \in Workers :
     (loc[w].preset # "" /\ ~IsTruthy(req[w].multi)) =>
        LET t == TargetOf(req[w])
            names == expected_stems_for(loc[w].preset)
            available == t \in Range(names)
            planned == outcome[w].msg \notin {"Spleeter failed", "Unexpected output"}
        IN  /\ (available /\ Composed(w) /\ ActionOf(req[w]) = remove) =>
                 ( /\ KeepsExactly(MixerInputs(w), Range(names) \ {t}, names)
                   /\ loc[w].label = <<"n","o","_">> \o t )
            /\ (available /\ Composed(w) /\ ActionOf(req[w]) = solo) =>
                 ( /\ MixerInputs(w) = <<t>>
                   /\ loc[w].label = <<"s","o","l","o","_">> \o t )
            /\ (Composed(w) /\ ActionOf(req[w]) = remove /\ t = drums
                  /\ loc[w].preset = "4stems") =>
                 MixerInputs(w) = <<vocals, bass, other>>
            /\ (Composed(w) /\ ActionOf(req[w]) = remove /\ t = piano) =>
                 ( /\ loc[w].preset = "5stems"
                   /\ MixerInputs(w) = <<vocals, drums, bass, other>> )
            /\ ~available => (~Composed(w) /\ calls[w].mix = 0)
            /\ (~available /\ pc[w] = "done" /\ planned) =>
                 ( /\ outcome[w].status = 400
                   /\ outcome[w].msg \in {"Target stem not present in preset",
                                          "not available in 2-stems"} )

\* C9 witness: drums removed under 4stems, about to mix vocals, bass, other
SingleRemoveDrumsComposed ==
  \E w \in Workers :
     /\ pc[w] = "mix"
     /\ ~IsTruthy(req[w].multi)
     /\ TargetOf(req[w]) = drums
     /\ ActionOf(req[w]) = remove
     /\ loc[w].keep_paths = <<vocals, bass, other>>

\* q lists the elements of S, each once, in increasing str order
IsSortedListOf(q, S) ==
  /\ Range(q) = S
  /\ \A i \in 1..(Len(q) - 1) : StrLess(q[i], q[i + 1])

\* The composition that a multi request listing rl would be given
MultiCompositionOf(w, rl) ==
  Plan(ParsedFields([req[w] EXCEPT !.remove_multi = rl]))

\* C10: in multi mode the mixer gets the preset's stems outside the removal
\* set in catalog order (names that are no stem of the preset are ignored),
\* the label is 'no_' plus the distinct removal names in increasing order
\* joined by '-', and the request gives the same stems and label as the
\* request that lists its set of names once each in increasing order, hence
\* as every request whose removal list has the same set of names.
MultiModeComposition ==
  \A w \in Workers :
     (loc[w].preset # "" /\ IsTruthy(req[w].multi) /\ pc[w] = "mix") =>
        LET T == RemovalSetOf(req[w])
            names == expected_stems_for(loc[w].preset)
        IN  /\ KeepsExactly(loc[w].keep_paths, Range(names) \ T, names)
            /\ IsSortedListOf(Sorted(T), T)
            /\ loc[w].label = <<"n","o","_">> \o Join(<<"-">>, Sorted(T))
            /\ T = {drums, bass} =>
                  /\ loc[w].keep_paths = <<vocals, other>>
                  /\ loc[w].label =
                       <<"n","o","_","b","a","s","s","-","d","r","u","m","s">>
            /\ MultiCompositionOf(w, Sorted(T)).keep_paths = loc[w].keep_paths
            /\ MultiCompositionOf(w, Sorted(T)).label = loc[w].label

\* C10 witness: a removal list sent out of order, with a repeated name and a
\* name that is no stem of the preset, has its composition
MultiUnsortedComposed ==
  \E w \in Workers :
     /\ pc[w] = "mix"
     /\ IsTruthy(req[w].multi)
     /\ req[w].remove_multi = <<drums, guitar, bass, drums>>
     /\ loc[w].keep_paths = <<vocals, other>>

\* The stems that the request of w asks to keep, by its mode and action
KeepSetOf(w) ==
  LET names == Range(expected_stems_for(loc[w].preset))
  IN  IF IsTruthy(req[w].multi) THEN names \ RemovalSetOf(req[w])
      ELSE IF ActionOf(req[w]) = remove THEN names \ {TargetOf(req[w])}
      ELSE names \cap {TargetOf(req[w])}

\* w has ended after its stems were found complete and its target available
EndedAfterPlanning(w) ==
  /\ pc[w] = "done"
  /\ loc[w].preset # ""
  /\ outcome[w].msg \notin {"Spleeter failed", "Unexpected output",
                            "Target stem not present in preset",
                            "not available in 2-stems"}

\* C11: a request whose keep set is empty ends with the 400 'Nothing to mix'
\* response without a mixer call, and the mixer is never run on zero inputs.
EmptyKeepSetRejected ==
  \A w \in Workers :
     /\ (EndedAfterPlanning(w) /\ KeepSetOf(w) = {}) =>
          ( /\ outcome[w].status = 400
            /\ outcome[w].msg = "Nothing to mix"
            /\ calls[w].mix = 0 )
     /\ calls[w].mix > 0 => loc[w].keep_paths # <<>>
     /\ (loc[w].preset # "" /\ KeepSetOf(w) = {}) =>
          (calls[w].mix = 0 /\ outcome[w].status # 200)

\* C11 witness: a multi request removing all four stems of 4stems was rejected
RemoveAllStemsRejected ==
  \E w \in Workers :
     /\ pc[w] = "done"
     /\ loc[w].preset = "4stems"
     /\ RemovalSetOf(req[w]) = {vocals, drums, bass, other}
     /\ outcome[w].msg = "Nothing to mix"

\* s is a str without upper-case letters and without whitespace at its ends
IsCanonicalStr(s) ==
  /\ \A i \in 1..Len(s) : s[i] \in Range(Chars) /\ ~IsUpper(s[i])
  /\ s # <<>> => (~IsSpace(s[1]) /\ ~IsSpace(s[Len(s)]))

\* The raw name, trimmed and lower-cased ('' for None)
TrimmedLower(raw) == Lower(Strip(IF raw = None THEN <<>> ELSE raw))

\* C12: normalize_instrument_name gives a value for every raw name, None and
\* '' included: 'vocals' for every case/whitespace variant of 'voice' and
\* 'vocal', the trimmed lower-cased name otherwise; normalizing the result
\* again gives the same result.
NormalizeTotalIdempotent ==
  /\ [](\A w \in Workers :
          pc[w] \in {"normalized", "renormalized"} =>
             /\ IsCanonicalStr(loc[w].instrument)
             /\ loc[w].instrument =
                  (IF TrimmedLower(req[w].instrument) \in {voice, vocal}
                     THEN vocals
                     ELSE TrimmedLower(req[w].instrument))
             /\ req[w].instrument \in
                  { <<"V","o","i","c","e">>, <<"V","O","C","A","L">>,
                    <<" ","v","o","c","a","l"," ">> } =>
                  loc[w].instrument = vocals)
  /\ [][\A w \in Workers :
          (pc[w] = "normalized" /\ pc'[w] = "renormalized") =>
             loc'[w].instrument = loc[w].instrument]_vars

\* C12 witness: a padded, capitalised 'Voice' was normalized twice to 'vocals'
PaddedVoiceNormalizedTwice ==
  \E w \in Workers :
     /\ pc[w] = "renormalized"
     /\ req[w].instrument = <<"\t"," ","V","o","i","c","e"," ">>
     /\ loc[w].instrument = vocals

\* C13: a request reaches the mixer only from the stems check, and only when
\* that check saw no expected stem of its preset missing or empty; a cache
\* check that sees any expected stem missing or empty sends the request to
\* the engine, and such a request gets past the separation step only after
\* one engine call that returned.
StemSetNeverPartiallyValid ==
  /\ [][\A w \in Workers :
          /\ (pc'[w] = "mix" /\ pc[w] # "mix") =>
               (/\ pc[w] = "validate_stems"
                /\ BadStems(stems[loc[w].base], loc[w].preset) = {})
          /\ calls'[w].mix > calls[w].mix => pc[w] = "mix"
          /\ (/\ pc[w] = "check"
              /\ pc'[w] # "check"
              /\ BadStems(stems[loc[w].base], loc[w].preset) # {}) =>
               (pc'[w] = "get_separator" /\ loc'[w].need_separate)]_vars
  /\ [](\A w \in Workers :
          (/\ pc[w] \in {"unlink", "validate_stems", "mix"}
           /\ loc[w].need_separate) =>
             (calls[w].engine = 1 /\ calls[w].engine_result = "returned"))

\* C13 witness: a 4stems request missed the cache although the vocals stem
\* was there, the drums stem being absent
PartialSetMissed ==
  \E w \in Workers :
     /\ pc[w] = "get_separator"
     /\ loc[w].preset = "4stems"
     /\ loc[w].need_separate
     /\ stems[loc[w].base][vocals] \notin {Absent, Empty}
     /\ stems[loc[w].base][drums] = Absent

\* The separation step of the request of w is over without an engine error
SeparationStepPassed(w) ==
  \/ pc[w] \in {"validate_stems", "mix"}
  \/ /\ pc[w] = "done"
     /\ calls[w].hit \/ calls[w].engine_result = "returned"

\* C14: a request whose separation step is over without an engine error has
\* run the removal of its upload once, before the stems check and whatever
\* the later steps answer; the removal step either removes the upload or, on
\* failure, leaves it, and in both cases goes on to the stems check without
\* touching the outcome, the request's values or the stems.
UploadRemovedBeforeStemsCheck ==
  /\ [](\A w \in Workers : SeparationStepPassed(w) => calls[w].unlink = 1)
  /\ [][\A w \in Workers :
          /\ (pc'[w] = "validate_stems" /\ pc[w] # "validate_stems") =>
               pc[w] = "unlink"
          /\ (pc[w] = "unlink" /\ pc'[w] # "unlink") =>
               (/\ pc'[w] = "validate_stems"
                /\ uploads' \in {uploads, uploads \ {InPath(loc[w])}}
                /\ outcome' = outcome
                /\ loc' = loc
                /\ stems' = stems
                /\ mixes' = mixes)
          /\ (pc[w] \in {"validate_stems", "mix"} /\ pc'[w] = "done") =>
               (uploads' = uploads /\ calls'[w].unlink = 1)]_vars

\* C14 witness: the upload is gone although the request then failed at the
\* stems check
UploadGoneStemsCheckFailed ==
  \E w \in Workers :
     /\ pc[w] = "done"
     /\ outcome[w].msg = "Unexpected output"
     /\ calls[w].unlink = 1
     /\ InPath(loc[w]) \notin uploads

\* The request of v has missed the cache and its engine call is not over
BetweenMissAndEngineEnd(v) ==
  pc[v] \in {"get_separator", "construct", "get_return", "separate"}

\* C15: nothing excludes a second request of the same asset and preset from
\* the cache check and the engine while a first one is between its miss and
\* the end of its engine call: the second can miss the cache too, and with
\* both at the engine call each can invoke the engine.
CheckThenProduceRace ==
  \A v, w \in Workers :
     (/\ v # w
      /\ loc[v].base = loc[w].base
      /\ loc[v].preset = loc[w].preset
      /\ BetweenMissAndEngineEnd(v)) =>
        /\ (/\ pc[w] = "check"
            /\ BadStems(stems[loc[w].base], loc[w].preset) # {}) =>
              ENABLED (CheckCache(w) /\ pc'[w] = "get_separator")
        /\ pc[w] = "separate" =>
              ENABLED (SeparateRaises(w) \/ SeparateReturns(w))

\* C15 witness: one request's engine call has written every stem of the preset
\* while the other request, having missed before that, is about to call the
\* engine on the same files
BothMissedSameStems ==
  \E v, w \in Workers :
     /\ v # w
     /\ loc[v].base = loc[w].base
     /\ loc[v].preset = loc[w].preset
     /\ pc[v] = "unlink"
     /\ calls[v].engine = 1
     /\ calls[v].engine_result = "returned"
     /\ pc[w] = "separate"
     /\ loc[w].need_separate
     /\ BadStems(stems[loc[w].base], loc[w].preset) = {}

\* C16: every request that 2stems is chosen for is a single-mode request
\* whose normalized target is vocals, so a request for drums, bass, piano or
\* other is never given 2stems, and no request ends with either of the two
\* 'not available in 2-stems' rejections.
TwoStemsOnlyForVocals ==
  \A w \in Workers :
     /\ (pc[w] # "idle" /\ ParsedFields(req[w]).preset = "2stems") =>
          (~IsTruthy(req[w].multi) /\ TargetOf(req[w]) = vocals)
     /\ loc[w].preset = "2stems" => loc[w].instrument = vocals
     /\ (pc[w] # "idle" /\ TargetOf(req[w]) \in {drums, bass, piano, other}) =>
          loc[w].preset # "2stems"
     /\ outcome[w].msg \notin {"Fast Karaoke Mode (2-stems) only supports",
                               "not available in 2-stems"}

\* C16 witness: a vocals request served by 2stems was mixed, and so went
\* through both 2-stems tests
TwoStemsVocalsMixed ==
  \E w \in Workers :
     /\ pc[w] = "done"
     /\ loc[w].preset = "2stems"
     /\ loc[w].instrument = vocals
     /\ ActionOf(req[w]) = remove
     /\ outcome[w].status = 200

\* C17: every request that passes validation carries one of the presets
\* 2stems, 4stems, 5stems, whatever its mode, instrument string, removal list
\* and flags; the catalog knows the preset, and no request ends with the
\* failure of the catalog lookup.
UnknownPresetUnreachable ==
  \A w \in Workers :
     /\ (pc[w] # "idle" /\ ValidationFailure(req[w]) = "") =>
          (/\ loc[w].preset \in {"2stems", "4stems", "5stems"}
           /\ expected_stems_for(loc[w].preset) # <<>>)
     /\ pc[w] # "idle" =>
          ParsedFields(req[w]).preset \in {"2stems", "4stems", "5stems"}
     /\ outcome[w].msg # "Unknown preset"

\* C17 witness: requests naming an instrument that no preset has, in single
\* mode and in a removal list, are past the catalog lookup
UnknownInstrumentLookedUp ==
  \E w \in Workers :
     /\ pc[w] = "get_separator"
     /\ loc[w].preset = "4stems"
     /\ \/ (~IsTruthy(req[w].multi) /\ TargetOf(req[w]) = guitar)
        \/ (IsTruthy(req[w].multi) /\ guitar \in RemovalSetOf(req[w]))

\* The request of w is a single-mode request for 'accompaniment'
SingleAccompaniment(w) ==
  /\ pc[w] # "idle"
  /\ ~IsTruthy(req[w].multi)
  /\ TargetOf(req[w]) = accompaniment

\* C18: for a single-mode request whose target is 'accompaniment', with
\* either action and any flag, the selector gives 4stems; the mixer is never
\* run and the answer is never a success; once its stems were found complete
\* the request ends with 400 'Target stem not present in preset'.
SingleAccompanimentNeverSucceeds ==
  \A w \in Workers :
     SingleAccompaniment(w) =>
        /\ ParsedFields(req[w]).preset = "4stems"
        /\ loc[w].preset \in {"", "4stems"}
        /\ pc[w] # "mix"
        /\ calls[w].mix = 0
        /\ outcome[w].status # 200
        /\ mixes = {}
        /\ (/\ pc[w] = "done"
            /\ loc[w].preset # ""
            /\ outcome[w].msg \notin {"Spleeter failed", "Unexpected output"}) =>
             (/\ outcome[w].status = 400
              /\ outcome[w].msg = "Target stem not present in preset")

\* C18 witness: a solo request for 'accompaniment' with the fast-path flag set
\* ended with the target-stem failure
SoloAccompanimentFastRejected ==
  \E w \in Workers :
     /\ SingleAccompaniment(w)
     /\ ActionOf(req[w]) = solo
     /\ IsTruthy(req[w].karaoke)
     /\ pc[w] = "done"
     /\ calls[w].engine = 1
     /\ outcome[w].msg = "Target stem not present in preset"

\* C19: from its save to its engine call a request finds its upload at the
\* input path, under every interleaving of requests uploading the same name.
UploadPresentUntilEngineCall ==
  \A w \in Workers :
     pc[w] \in {"check", "get_separator", "construct", "get_return",
                "separate"} =>
        InPath(loc[w]) \in uploads

====
